---- MODULE Spec2Model ----
(***************************************************************************)
(* UnrealConfigParser (src/dist/manage.py): a line-oriented editor of      *)
(* Unreal-Engine INI text.  A string is a sequence of one-character        *)
(* strings; `content` is the parser's list of lines, each line keeping its *)
(* terminator; `disk` is the file the parser reads and writes.             *)
(***************************************************************************)
EXTENDS Naturals, Sequences, FiniteSets, TLC

VARIABLES content, changed, disk, saved, loaded, last, calls,
          options, firewall, IS_SUDO, service

\* the application around the parser: GameConfig.options, the firewall rules
\* asked for, the privilege of the process and the systemd service
app == <<options, firewall, IS_SUDO, service>>

vars == <<content, changed, disk, saved, loaded, last, calls, app>>

\* Most lines a file of TerminatedFiles has after its optional [A] header.
MaxBody == 2
\* Longest run of calls on one parser object.
MaxCalls == 3

LF == "\n"
CR == "\r"

(***************************************************************************)
(* Python's str methods, as the parser uses them.                          *)
(***************************************************************************)
Whitespace == {" ", "\t", LF, CR}

RECURSIVE lstrip(_)
lstrip(s) ==
    IF s # <<>> /\ Head(s) \in Whitespace THEN lstrip(Tail(s)) ELSE s

RECURSIVE rstrip(_)
rstrip(s) ==
    IF s # <<>> /\ s[Len(s)] \in Whitespace
    THEN rstrip(SubSeq(s, 1, Len(s) - 1))
    ELSE s

strip(s) == rstrip(lstrip(s))

startswith(s, prefix) ==
    Len(s) >= Len(prefix) /\ SubSeq(s, 1, Len(prefix)) = prefix

endswith(s, suffix) ==
    Len(s) >= Len(suffix) /\ SubSeq(s, Len(s) - Len(suffix) + 1, Len(s)) = suffix

\* sub in s
contains(s, sub) ==
    \E i \in 0..Len(s) :
        i + Len(sub) <= Len(s) /\ SubSeq(s, i + 1, i + Len(sub)) = sub

\* s.find(sub) + 1: the position of the first occurrence, 0 when there is none
find(s, sub) ==
    IF contains(s, sub)
    THEN CHOOSE i \in 1..(Len(s) + 1) :
            /\ i + Len(sub) - 1 <= Len(s)
            /\ SubSeq(s, i, i + Len(sub) - 1) = sub
            /\ \A j \in 1..(i - 1) : SubSeq(s, j, j + Len(sub) - 1) # sub
    ELSE 0

\* map(str.strip, s.split('=', 1)) for an s that contains '='
split_eq(s) ==
    LET p == find(s, <<"=">>)
    IN  [key |-> strip(SubSeq(s, 1, p - 1)), value |-> strip(SubSeq(s, p + 1, Len(s)))]

\* s.replace(old, new) for a non-empty old
RECURSIVE replace(_, _, _)
replace(s, old, new) ==
    LET p == find(s, old)
    IN  IF p = 0 THEN s
        ELSE SubSeq(s, 1, p - 1) \o new
             \o replace(SubSeq(s, p + Len(old), Len(s)), old, new)

\* s[1:]
rest(s) == SubSeq(s, 2, Len(s))

\* ''.join(lines)
RECURSIVE join(_)
join(lines) == IF lines = <<>> THEN <<>> ELSE Head(lines) \o join(Tail(lines))

(***************************************************************************)
(* File text.  open(path, 'r') reads with universal newlines: "\r\n" and   *)
(* "\r" arrive as "\n".  readlines() cuts after every "\n".  open(path,    *)
(* 'w', newline=option) writes "\n" as os.linesep when option is None, as  *)
(* given when it is '\n', and as "\r\n" when it is '\r\n'.                 *)
(***************************************************************************)
RECURSIVE universal_newlines(_)
universal_newlines(bytes) ==
    IF bytes = <<>> THEN <<>>
    ELSE IF Head(bytes) = CR
         THEN IF Len(bytes) >= 2 /\ bytes[2] = LF
              THEN <<LF>> \o universal_newlines(SubSeq(bytes, 3, Len(bytes)))
              ELSE <<LF>> \o universal_newlines(Tail(bytes))
         ELSE <<Head(bytes)>> \o universal_newlines(Tail(bytes))

RECURSIVE readlines(_)
readlines(text) ==
    IF text = <<>> THEN <<>>
    ELSE LET p == find(text, <<LF>>)
         IN  IF p = 0 THEN <<text>>
             ELSE <<SubSeq(text, 1, p)>> \o readlines(SubSeq(text, p + 1, Len(text)))

\* os.linesep of the platform the manager runs on (systemd, Linux)
os_linesep == <<LF>>

NewlineOptions == {"None", "LF", "CRLF"}

translate_newlines(text, newline_option) ==
    CASE newline_option = "None" -> replace(text, <<LF>>, os_linesep)
      [] newline_option = "LF"   -> text
      [] newline_option = "CRLF" -> replace(text, <<LF>>, <<CR, LF>>)

writelines(lines, newline_option) == translate_newlines(join(lines), newline_option)

(***************************************************************************)
(* UnrealConfigParser.is_section and the header test every scan repeats.   *)
(***************************************************************************)
is_section(line, section) ==
    /\ startswith(line, <<"[">>)
    /\ endswith(line, <<"]">>)
    /\ strip(SubSeq(line, 2, Len(line) - 1)) = section

\* if self.is_section(stripped, section): in_section = True
\* elif stripped.startswith('[') and stripped.endswith(']'): in_section = False
track_section(in_section, stripped, section) ==
    IF is_section(stripped, section) THEN TRUE
    ELSE IF startswith(stripped, <<"[">>) /\ endswith(stripped, <<"]">>) THEN FALSE
    ELSE in_section

\* stripped.startswith((';', '#'))
is_comment(stripped) ==
    startswith(stripped, <<";">>) \/ startswith(stripped, <<"#">>)

has_eq(stripped) == contains(stripped, <<"=">>)

(***************************************************************************)
(* get_key                                                                 *)
(***************************************************************************)
\* get_key that does not track the section: any line with the key answers
RECURSIVE get_key_loop_any_section(_, _, _, _, _, _)
get_key_loop_any_section(lines, i, in_section, section, key, default) ==
    IF i > Len(lines) THEN default
    ELSE LET stripped == strip(lines[i])
             uncommented_line ==
                 IF startswith(stripped, <<";">>) THEN strip(rest(stripped)) ELSE stripped
         IN  IF has_eq(stripped) /\ split_eq(uncommented_line).key = key
             THEN split_eq(uncommented_line).value
             ELSE get_key_loop_any_section(lines, i + 1, in_section, section, key, default)

RECURSIVE get_key_loop(_, _, _, _, _, _)
get_key_loop(lines, i, in_section, section, key, default) ==
    IF i > Len(lines) THEN default
    ELSE LET stripped == strip(lines[i])
             ins == track_section(in_section, stripped, section)
             uncommented_line ==
                 IF startswith(stripped, <<";">>) THEN strip(rest(stripped)) ELSE stripped
         IN  IF ins /\ has_eq(stripped) /\ split_eq(uncommented_line).key = key
             THEN split_eq(uncommented_line).value
             ELSE get_key_loop(lines, i + 1, ins, section, key, default)

get_key(lines, section, key, default) ==
    get_key_loop(lines, 1, FALSE, section, key, default)

(***************************************************************************)
(* add_key: returns None.  The look-ahead test runs on the line being      *)
(* copied, and the new line is appended before that line.                  *)
(***************************************************************************)
RECURSIVE add_key_loop(_, _, _, _, _)
add_key_loop(lines, i, st, section, new) ==
    IF i > Len(lines) THEN st
    ELSE LET line == lines[i]
             sec == is_section(strip(line), section)
             ins == st.in_section \/ sec
             look == ins /\ (i = Len(lines)
                             \/ startswith(strip(lines[i + 1]), <<"[">>))
         IN  add_key_loop(lines, i + 1,
                 [in_section    |-> ins /\ ~look,
                  section_found |-> st.section_found \/ sec,
                  changed       |-> st.changed \/ look,
                  updated_lines |-> (IF look THEN Append(st.updated_lines, new)
                                     ELSE st.updated_lines) \o <<line>>],
                 section, new)

\* add_key that sets changed only where the loop inserts
add_key_new_section_unmarked(lines, was_changed, section, key, value) ==
    LET new == key \o <<"=">> \o value \o <<LF>>
        st == add_key_loop(lines, 1,
                  [in_section |-> FALSE, section_found |-> FALSE,
                   changed |-> was_changed, updated_lines |-> <<>>],
                  section, new)
    IN  [content |-> IF ~st.section_found
                     THEN st.updated_lines
                          \o << <<LF, "[">> \o section \o <<"]", LF>>, new >>
                     ELSE st.updated_lines,
         changed |-> st.changed, ret |-> "None"]

add_key(lines, was_changed, section, key, value) ==
    LET new == key \o <<"=">> \o value \o <<LF>>
        st == add_key_loop(lines, 1,
                  [in_section |-> FALSE, section_found |-> FALSE,
                   changed |-> was_changed, updated_lines |-> <<>>],
                  section, new)
    IN  IF ~st.section_found
        THEN [content |-> st.updated_lines
                          \o << <<LF, "[">> \o section \o <<"]", LF>>, new >>,
              changed |-> TRUE, ret |-> "None"]
        ELSE [content |-> st.updated_lines, changed |-> st.changed, ret |-> "None"]

(***************************************************************************)
(* set_key: returns None.  Every matching line is rewritten (the loop has  *)
(* no stop), `';' if commented else '' + f"{key}={value}\n"` is ';' for a  *)
(* commented entry, and changed is ASSIGNED prev_value != value.           *)
(***************************************************************************)
RECURSIVE set_key_loop(_, _, _, _, _, _)
set_key_loop(lines, i, st, section, key, value) ==
    IF i > Len(lines) THEN st
    ELSE LET line == lines[i]
             stripped == strip(line)
             ins == track_section(st.in_section, stripped, section)
             commented == startswith(stripped, <<";">>)
             uncommented_line == IF commented THEN strip(rest(stripped)) ELSE stripped
             hit == ins /\ has_eq(stripped) /\ split_eq(uncommented_line).key = key
             prev_value == split_eq(uncommented_line).value
             new == IF commented THEN <<";">> ELSE key \o <<"=">> \o value \o <<LF>>
         IN  set_key_loop(lines, i + 1,
                 [in_section    |-> ins,
                  found         |-> st.found \/ hit,
                  changed       |-> IF hit THEN prev_value # value ELSE st.changed,
                  updated_lines |-> Append(st.updated_lines, IF hit THEN new ELSE line)],
                 section, key, value)

set_key(lines, was_changed, section, key, value) ==
    LET st == set_key_loop(lines, 1,
                  [in_section |-> FALSE, found |-> FALSE,
                   changed |-> was_changed, updated_lines |-> <<>>],
                  section, key, value)
    IN  IF st.found
        THEN [content |-> st.updated_lines, changed |-> st.changed, ret |-> "None"]
        ELSE add_key(lines, st.changed, section, key, value)

(***************************************************************************)
(* add_key_after_match: returns None.  The section is left only by the     *)
(* test `self.is_section(line, section) and stripped[1:-1] != section`.    *)
(***************************************************************************)
RECURSIVE add_key_after_match_loop(_, _, _, _, _, _)
add_key_after_match_loop(lines, i, st, section, substring, new_line) ==
    IF i > Len(lines) THEN st
    ELSE LET line == lines[i]
             stripped == strip(line)
             sec == is_section(stripped, section)
             ins == st.in_section \/ sec
             hit == ins /\ contains(stripped, substring) /\ ~st.found
             leave == ins /\ is_section(line, section)
                      /\ SubSeq(stripped, 2, Len(stripped) - 1) # section
         IN  add_key_after_match_loop(lines, i + 1,
                 [in_section    |-> ins /\ ~leave,
                  section_found |-> st.section_found \/ sec,
                  found         |-> st.found \/ hit,
                  updated_lines |-> IF hit
                                    THEN st.updated_lines \o <<line, new_line \o <<LF>> >>
                                    ELSE Append(st.updated_lines, line)],
                 section, substring, new_line)

add_key_after_match(lines, was_changed, section, substring, new_line) ==
    LET st == add_key_after_match_loop(lines, 1,
                  [in_section |-> FALSE, section_found |-> FALSE,
                   found |-> FALSE, updated_lines |-> <<>>],
                  section, substring, new_line)
    IN  IF ~st.section_found
        THEN [content |-> st.updated_lines
                          \o << <<LF, "[">> \o section \o <<"]", LF>>,
                                new_line \o <<LF>> >>,
              changed |-> TRUE, ret |-> "None"]
        ELSE [content |-> st.updated_lines,
              changed |-> was_changed \/ st.found, ret |-> "None"]

(***************************************************************************)
(* The mutators that return a bool.  Each scans once, acts on the first    *)
(* line that matches (`if not exists`), and returns False with content and *)
(* changed untouched when none does.                                       *)
(***************************************************************************)
\* remove_key without the comment test: a ';'-commented entry is removed too
RECURSIVE remove_key_loop_comments_too(_, _, _, _, _)
remove_key_loop_comments_too(lines, i, st, section, key) ==
    IF i > Len(lines) THEN st
    ELSE LET line == lines[i]
             stripped == strip(line)
             ins == IF st.exists THEN st.in_section
                    ELSE track_section(st.in_section, stripped, section)
             uncommented_line ==
                 IF startswith(stripped, <<";">>) THEN strip(rest(stripped)) ELSE stripped
             hit == ~st.exists /\ ins /\ has_eq(stripped)
                    /\ split_eq(uncommented_line).key = key
         IN  remove_key_loop_comments_too(lines, i + 1,
                 [in_section    |-> ins,
                  exists        |-> st.exists \/ hit,
                  updated_lines |-> IF hit THEN st.updated_lines
                                    ELSE Append(st.updated_lines, line)],
                 section, key)

RECURSIVE remove_key_loop(_, _, _, _, _)
remove_key_loop(lines, i, st, section, key) ==
    IF i > Len(lines) THEN st
    ELSE LET line == lines[i]
             stripped == strip(line)
             ins == IF st.exists THEN st.in_section
                    ELSE track_section(st.in_section, stripped, section)
             hit == ~st.exists /\ ins /\ has_eq(stripped) /\ ~is_comment(stripped)
                    /\ split_eq(stripped).key = key
         IN  remove_key_loop(lines, i + 1,
                 [in_section    |-> ins,
                  exists        |-> st.exists \/ hit,
                  updated_lines |-> IF hit THEN st.updated_lines ELSE Append(st.updated_lines, line)],
                 section, key)

remove_key(lines, was_changed, section, key) ==
    LET st == remove_key_loop(lines, 1,
                  [in_section |-> FALSE, exists |-> FALSE, updated_lines |-> <<>>],
                  section, key)
    IN  IF ~st.exists
        THEN [content |-> lines, changed |-> was_changed, ret |-> "False"]
        ELSE [content |-> st.updated_lines, changed |-> TRUE, ret |-> "True"]

\* remove_key_by_substring_search that searches comment lines whatever
\* search_in_comment says
RECURSIVE remove_key_by_substring_search_loop_always(_, _, _, _, _, _)
remove_key_by_substring_search_loop_always(lines, i, st, section, substring, search_in_comment) ==
    IF i > Len(lines) THEN st
    ELSE LET line == lines[i]
             stripped == strip(line)
             ins == IF st.exists THEN st.in_section
                    ELSE track_section(st.in_section, stripped, section)
             hit == ~st.exists /\ ins /\ has_eq(stripped) /\ contains(stripped, substring)
         IN  remove_key_by_substring_search_loop_always(lines, i + 1,
                 [in_section    |-> ins,
                  exists        |-> st.exists \/ hit,
                  updated_lines |-> IF hit THEN st.updated_lines ELSE Append(st.updated_lines, line)],
                 section, substring, search_in_comment)

RECURSIVE remove_key_by_substring_search_loop(_, _, _, _, _, _)
remove_key_by_substring_search_loop(lines, i, st, section, substring, search_in_comment) ==
    IF i > Len(lines) THEN st
    ELSE LET line == lines[i]
             stripped == strip(line)
             ins == IF st.exists THEN st.in_section
                    ELSE track_section(st.in_section, stripped, section)
             hit == ~st.exists /\ ins /\ has_eq(stripped) /\ (search_in_comment \/ ~is_comment(stripped))
                    /\ contains(stripped, substring)
         IN  remove_key_by_substring_search_loop(lines, i + 1,
                 [in_section    |-> ins,
                  exists        |-> st.exists \/ hit,
                  updated_lines |-> IF hit THEN st.updated_lines ELSE Append(st.updated_lines, line)],
                 section, substring, search_in_comment)

remove_key_by_substring_search(lines, was_changed, section, substring, search_in_comment) ==
    LET st == remove_key_by_substring_search_loop(lines, 1,
                  [in_section |-> FALSE, exists |-> FALSE, updated_lines |-> <<>>],
                  section, substring, search_in_comment)
    IN  IF ~st.exists
        THEN [content |-> lines, changed |-> was_changed, ret |-> "False"]
        ELSE [content |-> st.updated_lines, changed |-> TRUE, ret |-> "True"]

\* replace_value_with_same_key that skips ';' lines only, not '#' lines
RECURSIVE replace_value_with_same_key_loop_hash(_, _, _, _, _, _, _)
replace_value_with_same_key_loop_hash(lines, i, st, section, key, new_value, spacing) ==
    IF i > Len(lines) THEN st
    ELSE LET line == lines[i]
             stripped == strip(line)
             ins == IF st.exists THEN st.in_section
                    ELSE track_section(st.in_section, stripped, section)
             hit == ~st.exists /\ ins /\ has_eq(stripped)
                    /\ ~startswith(stripped, <<";">>)
                    /\ split_eq(lstrip(IF startswith(stripped, <<"#">>)
                                       THEN rest(stripped) ELSE stripped)).key = key
             new == IF spacing THEN key \o <<" ", "=", " ">> \o new_value \o <<LF>>
                    ELSE key \o <<"=">> \o new_value \o <<LF>>
         IN  replace_value_with_same_key_loop_hash(lines, i + 1,
                 [in_section    |-> ins,
                  exists        |-> st.exists \/ hit,
                  updated_lines |-> Append(st.updated_lines, IF hit THEN new ELSE line)],
                 section, key, new_value, spacing)

RECURSIVE replace_value_with_same_key_loop(_, _, _, _, _, _, _)
replace_value_with_same_key_loop(lines, i, st, section, key, new_value, spacing) ==
    IF i > Len(lines) THEN st
    ELSE LET line == lines[i]
             stripped == strip(line)
             ins == IF st.exists THEN st.in_section
                    ELSE track_section(st.in_section, stripped, section)
             hit == ~st.exists /\ ins /\ has_eq(stripped) /\ ~is_comment(stripped)
                    /\ split_eq(stripped).key = key
             new == IF spacing THEN key \o <<" ", "=", " ">> \o new_value \o <<LF>>
                    ELSE key \o <<"=">> \o new_value \o <<LF>>
         IN  replace_value_with_same_key_loop(lines, i + 1,
                 [in_section    |-> ins,
                  exists        |-> st.exists \/ hit,
                  updated_lines |-> Append(st.updated_lines, IF hit THEN new ELSE line)],
                 section, key, new_value, spacing)

replace_value_with_same_key(lines, was_changed, section, key, new_value, spacing) ==
    LET st == replace_value_with_same_key_loop(lines, 1,
                  [in_section |-> FALSE, exists |-> FALSE, updated_lines |-> <<>>],
                  section, key, new_value, spacing)
    IN  IF ~st.exists
        THEN [content |-> lines, changed |-> was_changed, ret |-> "False"]
        ELSE [content |-> st.updated_lines, changed |-> TRUE, ret |-> "True"]

\* comment_key without `if not exists`: every matching line is commented
RECURSIVE comment_key_loop_no_stop(_, _, _, _, _)
comment_key_loop_no_stop(lines, i, st, section, key) ==
    IF i > Len(lines) THEN st
    ELSE LET line == lines[i]
             stripped == strip(line)
             ins == track_section(st.in_section, stripped, section)
             hit == ins /\ has_eq(stripped) /\ ~is_comment(stripped)
                    /\ split_eq(stripped).key = key
         IN  comment_key_loop_no_stop(lines, i + 1,
                 [in_section    |-> ins,
                  exists        |-> st.exists \/ hit,
                  updated_lines |-> Append(st.updated_lines,
                                           IF hit THEN <<";">> \o line ELSE line)],
                 section, key)

RECURSIVE comment_key_loop(_, _, _, _, _)
comment_key_loop(lines, i, st, section, key) ==
    IF i > Len(lines) THEN st
    ELSE LET line == lines[i]
             stripped == strip(line)
             ins == IF st.exists THEN st.in_section
                    ELSE track_section(st.in_section, stripped, section)
             hit == ~st.exists /\ ins /\ has_eq(stripped) /\ ~is_comment(stripped)
                    /\ split_eq(stripped).key = key
             new == <<";">> \o line
         IN  comment_key_loop(lines, i + 1,
                 [in_section    |-> ins,
                  exists        |-> st.exists \/ hit,
                  updated_lines |-> Append(st.updated_lines, IF hit THEN new ELSE line)],
                 section, key)

comment_key(lines, was_changed, section, key) ==
    LET st == comment_key_loop(lines, 1,
                  [in_section |-> FALSE, exists |-> FALSE, updated_lines |-> <<>>],
                  section, key)
    IN  IF ~st.exists
        THEN [content |-> lines, changed |-> was_changed, ret |-> "False"]
        ELSE [content |-> st.updated_lines, changed |-> TRUE, ret |-> "True"]

\* uncomment_key with `line = stripped + '\n'`: the ';' stays
RECURSIVE uncomment_key_loop_keeps_semicolon(_, _, _, _, _)
uncomment_key_loop_keeps_semicolon(lines, i, st, section, key) ==
    IF i > Len(lines) THEN st
    ELSE LET line == lines[i]
             stripped == strip(line)
             ins == IF st.exists THEN st.in_section
                    ELSE track_section(st.in_section, stripped, section)
             uncommented_line == strip(rest(stripped))
             hit == ~st.exists /\ ins /\ startswith(stripped, <<";">>) /\ has_eq(stripped)
                    /\ split_eq(uncommented_line).key = key
         IN  uncomment_key_loop_keeps_semicolon(lines, i + 1,
                 [in_section    |-> ins,
                  exists        |-> st.exists \/ hit,
                  updated_lines |-> Append(st.updated_lines,
                                           IF hit THEN stripped \o <<LF>> ELSE line)],
                 section, key)

RECURSIVE uncomment_key_loop(_, _, _, _, _)
uncomment_key_loop(lines, i, st, section, key) ==
    IF i > Len(lines) THEN st
    ELSE LET line == lines[i]
             stripped == strip(line)
             ins == IF st.exists THEN st.in_section
                    ELSE track_section(st.in_section, stripped, section)
             uncommented_line == strip(rest(stripped))
             hit == ~st.exists /\ ins /\ startswith(stripped, <<";">>) /\ has_eq(stripped)
                    /\ split_eq(uncommented_line).key = key
             new == uncommented_line \o <<LF>>
         IN  uncomment_key_loop(lines, i + 1,
                 [in_section    |-> ins,
                  exists        |-> st.exists \/ hit,
                  updated_lines |-> Append(st.updated_lines, IF hit THEN new ELSE line)],
                 section, key)

\* uncomment_key with `self.changed = True` ahead of the match test
uncomment_key_always_dirty(lines, was_changed, section, key) ==
    LET st == uncomment_key_loop(lines, 1,
                  [in_section |-> FALSE, exists |-> FALSE, updated_lines |-> <<>>],
                  section, key)
    IN  IF ~st.exists
        THEN [content |-> lines, changed |-> TRUE, ret |-> "False"]
        ELSE [content |-> st.updated_lines, changed |-> TRUE, ret |-> "True"]

uncomment_key(lines, was_changed, section, key) ==
    LET st == uncomment_key_loop(lines, 1,
                  [in_section |-> FALSE, exists |-> FALSE, updated_lines |-> <<>>],
                  section, key)
    IN  IF ~st.exists
        THEN [content |-> lines, changed |-> was_changed, ret |-> "False"]
        ELSE [content |-> st.updated_lines, changed |-> TRUE, ret |-> "True"]

RECURSIVE set_value_by_substring_search_loop(_, _, _, _, _, _, _)
set_value_by_substring_search_loop(lines, i, st, section, match_substring, new_value, search_in_comment) ==
    IF i > Len(lines) THEN st
    ELSE LET line == lines[i]
             stripped == strip(line)
             ins == IF st.exists THEN st.in_section
                    ELSE track_section(st.in_section, stripped, section)
             hit == ~st.exists /\ ins /\ has_eq(stripped) /\ (search_in_comment \/ ~is_comment(stripped))
                    /\ contains(stripped, match_substring)
             new == split_eq(stripped).key \o <<"=">> \o new_value \o <<LF>>
         IN  set_value_by_substring_search_loop(lines, i + 1,
                 [in_section    |-> ins,
                  exists        |-> st.exists \/ hit,
                  updated_lines |-> Append(st.updated_lines, IF hit THEN new ELSE line)],
                 section, match_substring, new_value, search_in_comment)

set_value_by_substring_search(lines, was_changed, section, match_substring, new_value, search_in_comment) ==
    LET st == set_value_by_substring_search_loop(lines, 1,
                  [in_section |-> FALSE, exists |-> FALSE, updated_lines |-> <<>>],
                  section, match_substring, new_value, search_in_comment)
    IN  IF ~st.exists
        THEN [content |-> lines, changed |-> was_changed, ret |-> "False"]
        ELSE [content |-> st.updated_lines, changed |-> TRUE, ret |-> "True"]

\* comment_by_substring_search with `match_substring in stripped`: the whole
\* line is searched, as uncomment_by_substring_search does
RECURSIVE comment_by_substring_search_loop_full_line(_, _, _, _, _, _)
comment_by_substring_search_loop_full_line(lines, i, st, section, match_substring, search_in_comment) ==
    IF i > Len(lines) THEN st
    ELSE LET line == lines[i]
             stripped == strip(line)
             ins == IF st.exists THEN st.in_section
                    ELSE track_section(st.in_section, stripped, section)
             hit == ~st.exists /\ ins /\ has_eq(stripped) /\ (search_in_comment \/ ~is_comment(stripped))
                    /\ contains(stripped, match_substring)
             new == <<";">> \o line
         IN  comment_by_substring_search_loop_full_line(lines, i + 1,
                 [in_section    |-> ins,
                  exists        |-> st.exists \/ hit,
                  updated_lines |-> Append(st.updated_lines, IF hit THEN new ELSE line)],
                 section, match_substring, search_in_comment)

RECURSIVE comment_by_substring_search_loop(_, _, _, _, _, _)
comment_by_substring_search_loop(lines, i, st, section, match_substring, search_in_comment) ==
    IF i > Len(lines) THEN st
    ELSE LET line == lines[i]
             stripped == strip(line)
             ins == IF st.exists THEN st.in_section
                    ELSE track_section(st.in_section, stripped, section)
             hit == ~st.exists /\ ins /\ has_eq(stripped) /\ (search_in_comment \/ ~is_comment(stripped))
                    /\ contains(split_eq(stripped).value, match_substring)
             new == <<";">> \o line
         IN  comment_by_substring_search_loop(lines, i + 1,
                 [in_section    |-> ins,
                  exists        |-> st.exists \/ hit,
                  updated_lines |-> Append(st.updated_lines, IF hit THEN new ELSE line)],
                 section, match_substring, search_in_comment)

comment_by_substring_search(lines, was_changed, section, match_substring, search_in_comment) ==
    LET st == comment_by_substring_search_loop(lines, 1,
                  [in_section |-> FALSE, exists |-> FALSE, updated_lines |-> <<>>],
                  section, match_substring, search_in_comment)
    IN  IF ~st.exists
        THEN [content |-> lines, changed |-> was_changed, ret |-> "False"]
        ELSE [content |-> st.updated_lines, changed |-> TRUE, ret |-> "True"]

RECURSIVE uncomment_by_substring_search_loop(_, _, _, _, _)
uncomment_by_substring_search_loop(lines, i, st, section, match_substring) ==
    IF i > Len(lines) THEN st
    ELSE LET line == lines[i]
             stripped == strip(line)
             ins == IF st.exists THEN st.in_section
                    ELSE track_section(st.in_section, stripped, section)
             uncommented_line == strip(rest(stripped))
             hit == ~st.exists /\ ins /\ startswith(stripped, <<";">>)
                    /\ contains(stripped, match_substring)
             new == uncommented_line \o <<LF>>
         IN  uncomment_by_substring_search_loop(lines, i + 1,
                 [in_section    |-> ins,
                  exists        |-> st.exists \/ hit,
                  updated_lines |-> Append(st.updated_lines, IF hit THEN new ELSE line)],
                 section, match_substring)

uncomment_by_substring_search(lines, was_changed, section, match_substring) ==
    LET st == uncomment_by_substring_search_loop(lines, 1,
                  [in_section |-> FALSE, exists |-> FALSE, updated_lines |-> <<>>],
                  section, match_substring)
    IN  IF ~st.exists
        THEN [content |-> lines, changed |-> was_changed, ret |-> "False"]
        ELSE [content |-> st.updated_lines, changed |-> TRUE, ret |-> "True"]

RECURSIVE replace_value_by_substring_search_loop(_, _, _, _, _, _, _)
replace_value_by_substring_search_loop(lines, i, st, section, match_substring, new_substring, search_in_comment) ==
    IF i > Len(lines) THEN st
    ELSE LET line == lines[i]
             stripped == strip(line)
             ins == IF st.exists THEN st.in_section
                    ELSE track_section(st.in_section, stripped, section)
             hit == ~st.exists /\ ins /\ has_eq(stripped) /\ (search_in_comment \/ ~is_comment(stripped))
                    /\ contains(stripped, match_substring)
             new == replace(stripped, match_substring, new_substring) \o <<LF>>
         IN  replace_value_by_substring_search_loop(lines, i + 1,
                 [in_section    |-> ins,
                  exists        |-> st.exists \/ hit,
                  updated_lines |-> Append(st.updated_lines, IF hit THEN new ELSE line)],
                 section, match_substring, new_substring, search_in_comment)

replace_value_by_substring_search(lines, was_changed, section, match_substring, new_substring, search_in_comment) ==
    LET st == replace_value_by_substring_search_loop(lines, 1,
                  [in_section |-> FALSE, exists |-> FALSE, updated_lines |-> <<>>],
                  section, match_substring, new_substring, search_in_comment)
    IN  IF ~st.exists
        THEN [content |-> lines, changed |-> was_changed, ret |-> "False"]
        ELSE [content |-> st.updated_lines, changed |-> TRUE, ret |-> "True"]

(***************************************************************************)
(* The files a parser is pointed at, and the arguments of its calls.       *)
(***************************************************************************)
HeaderA   == <<"[", "A", "]", LF>>
HeaderB   == <<"[", "B", "]", LF>>
EntryK1   == <<"k", "=", "1", LF>>
CommentK1 == <<";", "k", "=", "1", LF>>
HashK1    == <<"#", "k", "=", "1", LF>>
PaddedK2  == <<" ", "k", "=", "2", " ", CR, LF>>

LinePool == {HeaderA, HeaderB, EntryK1, CommentK1, HashK1, PaddedK2}

\* the file without the terminator of its last line
chop(bytes) ==
    IF endswith(bytes, <<CR, LF>>) THEN SubSeq(bytes, 1, Len(bytes) - 2)
    ELSE IF endswith(bytes, <<LF>>) THEN SubSeq(bytes, 1, Len(bytes) - 1)
    ELSE bytes

\* an optional [A] header, then up to MaxBody lines of the pool
TerminatedFiles ==
    {join(h \o b) : h \in {<<>>, <<HeaderA>>},
                    b \in UNION {[1..n -> LinePool] : n \in 0..MaxBody}}

\* a section that is entered twice, and a key that two sections hold
ExtraFiles ==
    {join(<<HeaderA, EntryK1, HeaderB, HeaderA, EntryK1>>),
     join(<<HeaderA, EntryK1, HeaderB, EntryK1>>)}

Files == TerminatedFiles \cup {chop(f) : f \in TerminatedFiles} \cup ExtraFiles

NoFile == [exists |-> FALSE, data |-> <<>>]

SectionArgs   == {<<"A">>}
KeyArgs       == {<<"k">>}
ValueArgs     == {<<"1">>, <<"2">>}
SubstringArgs == {<<"k">>, <<"1">>}
NewLineArgs   == {<<"j", "=", "2">>}
Defaults      == {<<>>, <<"d">>}

(***************************************************************************)
(* State.  content and changed are the parser's fields; disk is the file;  *)
(* saved is the content as of the last read_file or successful write_file; *)
(* loaded says that a read_file has succeeded; last describes the call     *)
(* that led here; calls counts the calls made.                             *)
(***************************************************************************)
\* GameConfig.__init__: no option is declared
NoOptions == [name \in {} |-> <<>>]

\* GameService before any start or stop: nothing asked of systemd
Service(running) ==
    [pc |-> "idle", running |-> running, counter |-> 0, systemctl |-> <<>>, out |-> <<>>]

\* a parser on its own: no GameConfig, no GameApp, no GameService around it
NoApp ==
    /\ options = NoOptions
    /\ firewall = <<>>
    /\ IS_SUDO = FALSE
    /\ service = Service(FALSE)

Call(op, section, key, value, flag, ret) ==
    [op |-> op, section |-> section, key |-> key, value |-> value, flag |-> flag,
     ret |-> ret, pre |-> content, pre_changed |-> changed, pre_disk |-> disk,
     after_read |-> last.op = "read_file", result |-> <<>>]

\* __init__
Init ==
    /\ content = <<>>
    /\ changed = FALSE
    /\ disk \in {[exists |-> TRUE, data |-> f] : f \in Files} \cup {NoFile}
    /\ saved = <<>>
    /\ loaded = FALSE
    /\ last = [op |-> "__init__", section |-> <<>>, key |-> <<>>, value |-> <<>>,
               flag |-> FALSE, ret |-> "None", pre |-> <<>>, pre_changed |-> FALSE,
               pre_disk |-> NoFile, after_read |-> FALSE, result |-> <<>>]
    /\ calls = 0
    /\ NoApp

\* a mutator call: r is what the method computes from content and changed
Mutate(op, section, key, value, flag, r) ==
    /\ calls < MaxCalls
    /\ content' = r.content
    /\ changed' = r.changed
    /\ last' = Call(op, section, key, value, flag, r.ret)
    /\ calls' = calls + 1
    /\ UNCHANGED app
    /\ UNCHANGED <<disk, saved, loaded>>

\* read_file without `self.changed = False`
ReadFile_keeps_changed ==
    /\ calls < MaxCalls
    /\ calls' = calls + 1
    /\ UNCHANGED app
    /\ UNCHANGED <<disk, changed>>
    /\ IF ~disk.exists
       THEN /\ last' = Call("read_file", <<>>, <<>>, <<>>, FALSE, "FileNotFoundError")
            /\ UNCHANGED <<content, saved, loaded>>
       ELSE /\ content' = readlines(universal_newlines(disk.data))
            /\ saved' = content'
            /\ loaded' = TRUE
            /\ last' = Call("read_file", <<>>, <<>>, <<>>, FALSE, "None")

ReadFile ==
    /\ calls < MaxCalls
    /\ calls' = calls + 1
    /\ UNCHANGED app
    /\ UNCHANGED disk
    /\ IF ~disk.exists
       THEN /\ last' = Call("read_file", <<>>, <<>>, <<>>, FALSE, "FileNotFoundError")
            /\ UNCHANGED <<content, changed, saved, loaded>>
       ELSE /\ content' = readlines(universal_newlines(disk.data))
            /\ changed' = FALSE
            /\ saved' = content'
            /\ loaded' = TRUE
            /\ last' = Call("read_file", <<>>, <<>>, <<>>, FALSE, "None")

\* write_file, when open() and writelines() succeed
WriteFile ==
    /\ calls < MaxCalls
    /\ calls' = calls + 1
    /\ UNCHANGED app
    /\ UNCHANGED <<content, loaded>>
    /\ \E newline_option \in NewlineOptions :
          /\ disk' = [exists |-> TRUE, data |-> writelines(content, newline_option)]
          /\ changed' = FALSE
          /\ saved' = content
          /\ last' = Call("write_file", <<>>, <<>>, <<newline_option>>, FALSE, "None")

\* write_file with `self.changed = False` ahead of the write
WriteFileFails_clears_changed ==
    /\ calls < MaxCalls
    /\ calls' = calls + 1
    /\ UNCHANGED app
    /\ UNCHANGED <<content, saved, loaded>>
    /\ changed' = FALSE
    /\ \E failure \in {"makedirs", "open", "write"} :
          /\ failure = "makedirs" => ~disk.exists
          /\ disk' = IF failure = "write" THEN [exists |-> TRUE, data |-> <<>>] ELSE disk
          /\ last' = Call("write_file", <<>>, <<>>, <<failure>>, FALSE, "OSError")

\* write_file, when it fails.  "makedirs": the directory is missing (so is
\* the file) and os.makedirs raises; that exception is printed and dropped,
\* and open() then raises for the missing directory.  "open": open() raises
\* and leaves the file alone.  "write": the write raises after open() has
\* truncated the file.  The exception of open() or of the write is printed
\* and raised again.
WriteFileFails ==
    /\ calls < MaxCalls
    /\ calls' = calls + 1
    /\ UNCHANGED app
    /\ UNCHANGED <<content, changed, saved, loaded>>
    /\ \E failure \in {"makedirs", "open", "write"} :
          /\ failure = "makedirs" => ~disk.exists
          /\ disk' = IF failure = "write" THEN [exists |-> TRUE, data |-> <<>>] ELSE disk
          /\ last' = Call("write_file", <<>>, <<>>, <<failure>>, FALSE, "OSError")

\* get_key: a query, the value it returns is last.result
GetKey ==
    /\ calls < MaxCalls
    /\ calls' = calls + 1
    /\ UNCHANGED app
    /\ UNCHANGED <<content, changed, disk, saved, loaded>>
    /\ \E s \in SectionArgs, k \in KeyArgs, d \in Defaults :
          last' = [Call("get_key", s, k, d, FALSE, "str")
                      EXCEPT !.result = get_key(content, s, k, d)]

AddKey ==
    \E s \in SectionArgs, k \in KeyArgs, v \in ValueArgs :
        Mutate("add_key", s, k, v, FALSE, add_key(content, changed, s, k, v))

SetKey ==
    \E s \in SectionArgs, k \in KeyArgs, v \in ValueArgs :
        Mutate("set_key", s, k, v, FALSE, set_key(content, changed, s, k, v))

AddKeyAfterMatch ==
    \E s \in SectionArgs, sub \in SubstringArgs, nl \in NewLineArgs :
        Mutate("add_key_after_match", s, sub, nl, FALSE,
               add_key_after_match(content, changed, s, sub, nl))

RemoveKey ==
    \E s \in SectionArgs, k \in KeyArgs :
        Mutate("remove_key", s, k, <<>>, FALSE, remove_key(content, changed, s, k))

RemoveKeyBySubstringSearch ==
    \E s \in SectionArgs, sub \in SubstringArgs, sic \in BOOLEAN :
        Mutate("remove_key_by_substring_search", s, sub, <<>>, sic,
               remove_key_by_substring_search(content, changed, s, sub, sic))

ReplaceValueWithSameKey ==
    \E s \in SectionArgs, k \in KeyArgs, v \in ValueArgs, spacing \in BOOLEAN :
        Mutate("replace_value_with_same_key", s, k, v, spacing,
               replace_value_with_same_key(content, changed, s, k, v, spacing))

CommentKey ==
    \E s \in SectionArgs, k \in KeyArgs :
        Mutate("comment_key", s, k, <<>>, FALSE, comment_key(content, changed, s, k))

UncommentKey ==
    \E s \in SectionArgs, k \in KeyArgs :
        Mutate("uncomment_key", s, k, <<>>, FALSE, uncomment_key(content, changed, s, k))

SetValueBySubstringSearch ==
    \E s \in SectionArgs, sub \in SubstringArgs, v \in ValueArgs, sic \in BOOLEAN :
        Mutate("set_value_by_substring_search", s, sub, v, sic,
               set_value_by_substring_search(content, changed, s, sub, v, sic))

CommentBySubstringSearch ==
    \E s \in SectionArgs, sub \in SubstringArgs, sic \in BOOLEAN :
        Mutate("comment_by_substring_search", s, sub, <<>>, sic,
               comment_by_substring_search(content, changed, s, sub, sic))

UncommentBySubstringSearch ==
    \E s \in SectionArgs, sub \in SubstringArgs :
        Mutate("uncomment_by_substring_search", s, sub, <<>>, FALSE,
               uncomment_by_substring_search(content, changed, s, sub))

ReplaceValueBySubstringSearch ==
    \E s \in SectionArgs, sub \in SubstringArgs, v \in ValueArgs, sic \in BOOLEAN :
        Mutate("replace_value_by_substring_search", s, sub, v, sic,
               replace_value_by_substring_search(content, changed, s, sub, v, sic))

Next ==
    \/ ReadFile
    \/ WriteFile
    \/ WriteFileFails
    \/ GetKey
    \/ AddKey
    \/ SetKey
    \/ AddKeyAfterMatch
    \/ RemoveKey
    \/ RemoveKeyBySubstringSearch
    \/ ReplaceValueWithSameKey
    \/ CommentKey
    \/ UncommentKey
    \/ SetValueBySubstringSearch
    \/ CommentBySubstringSearch
    \/ UncommentBySubstringSearch
    \/ ReplaceValueBySubstringSearch

Spec == Init /\ [][Next]_vars

(***************************************************************************)
(* GameConfig and GameApp.set_option (src/src/manage.py): one GameConfig   *)
(* whose parser is content/changed and whose path is disk.  A Python value *)
(* is a record: t is its type, v a string (sequence) or a number.          *)
(***************************************************************************)
\* Longest run of calls on one GameConfig.
MaxConfigCalls == 3

Str(v) == [t |-> "str", v |-> v]
Num(n) == [t |-> "int", v |-> n]

Digit(c) == CASE c = "0" -> 0 [] c = "1" -> 1 [] c = "2" -> 2

\* int() of a string of digits
RECURSIVE int(_)
int(value) ==
    IF value = <<>> THEN 0
    ELSE 10 * int(SubSeq(value, 1, Len(value) - 1)) + Digit(value[Len(value)])

\* int(x) of a Python value
to_int(x) == IF x.t = "int" THEN x.v ELSE int(x.v)

\* x != y in Python: values of different types are never equal
not_equal(x, y) == x.t # y.t \/ x.v # y.v

\* bool(x) in Python
truthy(x) == IF x.t = "int" THEN x.v # 0 ELSE x.v # <<>>

\* GameConfig._convert_to_system_type, for the types a port option has
_convert_to_system_type(value, type) ==
    IF value = <<>> THEN Str(<<>>)
    ELSE IF type = "int" THEN Num(int(value))
    ELSE Str(value)

\* GameConfig.get_value
get_value(name) ==
    IF name \notin DOMAIN options THEN Str(<<>>)
    ELSE LET o == options[name]
         IN  _convert_to_system_type(get_key(content, o.section, o.key, o.default), o.type)

\* GameConfig.set_value: what parser.set_key makes of the document
set_value(name, value) ==
    IF name \notin DOMAIN options
    THEN [content |-> content, changed |-> changed, ret |-> "None"]
    ELSE set_key(content, changed, options[name].section, options[name].key, value)

OptionNames == {"GamePort", "SteamQueryPort"}
OptionTypes == {"str", "int"}
PortArgs    == {<<"1">>, <<"2">>, <<"0", "1">>}

\* GameConfig.add_option for the two port options; the type is an argument
OptionTables ==
    {[name \in OptionNames |->
         [section |-> <<"A">>,
          key     |-> IF name = "GamePort" THEN <<"k">> ELSE <<"j">>,
          default |-> <<>>,
          type    |-> t]] : t \in OptionTypes}

ConfigFiles ==
    {<<>>, HeaderA, HeaderA \o EntryK1, HeaderA \o CommentK1, HeaderA \o PaddedK2}

\* GameApp.__init__: the options are declared and the file, if there, is read
ConfigInit ==
    /\ disk \in {[exists |-> TRUE, data |-> f] : f \in ConfigFiles} \cup {NoFile}
    /\ content = IF disk.exists THEN readlines(universal_newlines(disk.data)) ELSE <<>>
    /\ changed = FALSE
    /\ saved = content
    /\ loaded = TRUE
    /\ last = [op |-> "__init__", section |-> <<>>, key |-> <<>>, value |-> <<>>,
               flag |-> FALSE, ret |-> "None", pre |-> <<>>, pre_changed |-> FALSE,
               pre_disk |-> disk, after_read |-> FALSE, result |-> <<>>]
    /\ calls = 0
    /\ options \in OptionTables
    /\ firewall = <<>>
    /\ IS_SUDO = FALSE
    /\ service = Service(FALSE)

\* GameConfig.load
Load ==
    /\ calls < MaxConfigCalls
    /\ calls' = calls + 1
    /\ UNCHANGED <<disk, loaded, app>>
    /\ last' = Call("load", <<>>, <<>>, <<>>, FALSE, "None")
    /\ IF disk.exists
       THEN /\ content' = readlines(universal_newlines(disk.data))
            /\ changed' = FALSE
            /\ saved' = content'
       ELSE UNCHANGED <<content, changed, saved>>

\* GameConfig.set_value
SetValue ==
    /\ calls < MaxConfigCalls
    /\ calls' = calls + 1
    /\ UNCHANGED <<disk, saved, loaded, app>>
    /\ \E name \in OptionNames, value \in PortArgs :
          /\ content' = set_value(name, value).content
          /\ changed' = set_value(name, value).changed
          /\ last' = Call("set_value", options[name].section, options[name].key,
                          value, FALSE, "None")

\* GameConfig.save, the write succeeding when there is one
Save ==
    /\ calls < MaxConfigCalls
    /\ calls' = calls + 1
    /\ UNCHANGED <<content, loaded, app>>
    /\ last' = Call("save", <<>>, <<>>, <<>>, FALSE, "None")
    /\ IF changed
       THEN /\ disk' = [exists |-> TRUE, data |-> writelines(content, "None")]
            /\ changed' = FALSE
            /\ saved' = content
       ELSE UNCHANGED <<disk, changed, saved>>

\* GameConfig.save, parser.write_file raising
SaveFails ==
    /\ calls < MaxConfigCalls
    /\ calls' = calls + 1
    /\ changed
    /\ UNCHANGED <<content, changed, disk, saved, loaded, app>>
    /\ last' = Call("save", <<>>, <<>>, <<>>, FALSE, "OSError")

\* the firewall calls of GameApp.set_option
FirewallCalls(option, previous_value, value) ==
    IF option \in {"GamePort", "SteamQueryPort"}
    THEN (IF truthy(previous_value) /\ not_equal(previous_value, value)
          THEN <<[fn |-> "firewall_remove", port |-> to_int(previous_value)]>>
          ELSE <<>>)
         \o
         (IF not_equal(previous_value, value)
          THEN <<[fn |-> "firewall_allow", port |-> to_int(value)]>>
          ELSE <<>>)
    ELSE <<>>

\* GameApp.set_option: get_value, set_value, save, then the firewall; when
\* the save raises, the firewall is not reached.  last.result holds the
\* firewall calls made.
SetOption ==
    /\ calls < MaxConfigCalls
    /\ calls' = calls + 1
    /\ UNCHANGED <<loaded, options, IS_SUDO, service>>
    /\ \E option \in OptionNames, value \in PortArgs, written \in BOOLEAN :
          LET previous_value == get_value(option)
              r == set_value(option, value)
              fw == FirewallCalls(option, previous_value, Str(value))
          IN  /\ content' = r.content
              /\ ~r.changed => written
              /\ IF r.changed /\ written
                 THEN /\ disk' = [exists |-> TRUE, data |-> writelines(r.content, "None")]
                      /\ changed' = FALSE
                      /\ saved' = r.content
                 ELSE /\ changed' = r.changed
                      /\ UNCHANGED <<disk, saved>>
              /\ firewall' = IF written THEN firewall \o fw ELSE firewall
              /\ last' = [Call("set_option", options[option].section, options[option].key,
                               value, FALSE, IF written THEN "None" ELSE "OSError")
                             EXCEPT !.result = IF written THEN fw ELSE <<>>]

ConfigNext ==
    \/ Load
    \/ SetValue
    \/ Save
    \/ SaveFails
    \/ SetOption

ConfigSpec == ConfigInit /\ [][ConfigNext]_vars

(***************************************************************************)
(* GameService.start and stop (src/dist/manage.py).  service.running is    *)
(* what systemd reports for the unit; service.systemctl lists the commands *)
(* issued, each with the privilege and the unit's state at that time.      *)
(***************************************************************************)
\* Longest run of start and stop calls.
MaxServiceCalls == 3
\* `while counter < 240`
StartupChecks == 240

ServiceInit ==
    /\ content = <<>>
    /\ changed = FALSE
    /\ disk = NoFile
    /\ saved = <<>>
    /\ loaded = FALSE
    /\ last = [op |-> "__init__", section |-> <<>>, key |-> <<>>, value |-> <<>>,
               flag |-> FALSE, ret |-> "None", pre |-> <<>>, pre_changed |-> FALSE,
               pre_disk |-> NoFile, after_read |-> FALSE, result |-> <<>>]
    /\ calls = 0
    /\ options = NoOptions
    /\ firewall = <<>>
    /\ IS_SUDO \in BOOLEAN
    /\ \E running \in BOOLEAN : service = Service(running)

parser == <<content, changed, disk, saved, loaded, last>>

Systemctl(cmd) == [cmd |-> cmd, sudo |-> IS_SUDO, running |-> service.running]

\* start, up to the startup wait loop
Start ==
    /\ service.pc = "idle"
    /\ calls < MaxServiceCalls
    /\ calls' = calls + 1
    /\ UNCHANGED <<parser, options, firewall, IS_SUDO>>
    /\ IF service.running
       THEN service' = [service EXCEPT !.out = "Game is currently running!"]
       ELSE \E started \in BOOLEAN :
                service' = [service EXCEPT
                               !.systemctl = Append(@, Systemctl("start")),
                               !.running = started,
                               !.counter = 0,
                               !.pc = "startup_wait",
                               !.out = IF IS_SUDO
                                       THEN "Starting game via systemd, please wait a minute..."
                                       ELSE "ERROR - Unable to stop game service unless run with sudo"]

\* one pass of the startup wait loop
StartupCheck ==
    /\ service.pc = "startup_wait"
    /\ service.counter < StartupChecks
    /\ UNCHANGED <<parser, calls, options, firewall, IS_SUDO>>
    /\ \E exec_status \in {0, 1}, pid \in {0, 1}, ready \in BOOLEAN :
          /\ pid # 0 => service.running
          /\ service' =
                IF exec_status # 0
                THEN [service EXCEPT !.counter = @ + 1, !.pc = "idle",
                                     !.out = "Game failed to start, ExecMainStatus"]
                ELSE IF pid = 0
                THEN [service EXCEPT !.counter = @ + 1, !.pc = "idle",
                                     !.out = "Game failed to start, no PID found."]
                ELSE IF ready
                THEN [service EXCEPT !.counter = @ + 1, !.pc = "idle",
                                     !.out = "Game has started successfully!"]
                ELSE [service EXCEPT !.counter = @ + 1]

\* the loop ends after StartupChecks passes
StartupGiveUp ==
    /\ service.pc = "startup_wait"
    /\ service.counter = StartupChecks
    /\ UNCHANGED <<parser, calls, options, firewall, IS_SUDO>>
    /\ service' = [service EXCEPT !.pc = "idle"]

\* except KeyboardInterrupt
StartupInterrupt ==
    /\ service.pc = "startup_wait"
    /\ UNCHANGED <<parser, calls, options, firewall, IS_SUDO>>
    /\ service' = [service EXCEPT
                      !.pc = "idle",
                      !.out = "Cancelled startup wait check, (game is probably still started)"]

\* stop
Stop ==
    /\ service.pc = "idle"
    /\ calls < MaxServiceCalls
    /\ calls' = calls + 1
    /\ UNCHANGED <<parser, options, firewall, IS_SUDO>>
    /\ service' =
          IF IS_SUDO
          THEN [service EXCEPT
                   !.systemctl = Append(@, Systemctl("stop")),
                   !.running = FALSE,
                   !.out = "Stopping server, please wait as players will have a 5 minute warning."]
          ELSE [service EXCEPT
                   !.out = "ERROR - Unable to stop game service unless run with sudo"]

ServiceNext ==
    \/ Start
    \/ StartupCheck
    \/ StartupGiveUp
    \/ StartupInterrupt
    \/ Stop

ServiceSpec == ServiceInit /\ [][ServiceNext]_vars

(***************************************************************************)
(* The document as the specification describes it: a line belongs to the   *)
(* section of the nearest header at or before it, and each operation has a *)
(* match predicate over the lines of its section.                          *)
(***************************************************************************)
IsHeaderLine(line) ==
    startswith(strip(line), <<"[">>) /\ endswith(strip(line), <<"]">>)

HeaderName(line) == strip(SubSeq(strip(line), 2, Len(strip(line)) - 1))

BelongsTo(lines, i, section) ==
    \E h \in 1..i :
        /\ IsHeaderLine(lines[h])
        /\ HeaderName(lines[h]) = section
        /\ \A j \in (h + 1)..i : ~IsHeaderLine(lines[j])

IsEntry(line) == contains(strip(line), <<"=">>)

IsCommentLine(line) ==
    startswith(strip(line), <<";">>) \/ startswith(strip(line), <<"#">>)

\* the key of an entry, after one leading ';' is taken off
EntryKey(line) ==
    IF startswith(strip(line), <<";">>)
    THEN split_eq(strip(rest(strip(line)))).key
    ELSE split_eq(strip(line)).key

EntryValue(line) == split_eq(strip(line)).value

KeyOps == {"remove_key", "replace_value_with_same_key", "comment_key"}

SubstringLineOps ==
    {"remove_key_by_substring_search", "set_value_by_substring_search",
     "replace_value_by_substring_search"}

FirstMatchOps ==
    KeyOps \cup SubstringLineOps
    \cup {"uncomment_key", "comment_by_substring_search", "uncomment_by_substring_search"}

\* line i of lines satisfies the match predicate of call c
Matches(c, lines, i) ==
    /\ BelongsTo(lines, i, c.section)
    /\ CASE c.op \in KeyOps ->
              IsEntry(lines[i]) /\ ~IsCommentLine(lines[i]) /\ EntryKey(lines[i]) = c.key
         [] c.op = "uncomment_key" ->
              /\ IsEntry(lines[i])
              /\ startswith(strip(lines[i]), <<";">>)
              /\ EntryKey(lines[i]) = c.key
         [] c.op \in SubstringLineOps ->
              /\ IsEntry(lines[i])
              /\ c.flag \/ ~IsCommentLine(lines[i])
              /\ contains(strip(lines[i]), c.key)
         [] c.op = "comment_by_substring_search" ->
              /\ IsEntry(lines[i])
              /\ c.flag \/ ~IsCommentLine(lines[i])
              /\ contains(EntryValue(lines[i]), c.key)
         [] c.op = "uncomment_by_substring_search" ->
              /\ startswith(strip(lines[i]), <<";">>)
              /\ contains(strip(lines[i]), c.key)
         [] OTHER -> FALSE

MatchSet(c, lines) == {i \in 1..Len(lines) : Matches(c, lines, i)}

Min(S) == CHOOSE m \in S : \A n \in S : m <= n

\* lines without line i
Without(lines, i) == SubSeq(lines, 1, i - 1) \o SubSeq(lines, i + 1, Len(lines))

(***************************************************************************)
(* Claims                                                                  *)
(***************************************************************************)

\* C1: after set_key(s,k,v), get_key(s,k,d) returns v, whatever d is.
\* Violated: a ';'-commented entry is rewritten to ';', and a key added to a
\* section whose header is the last line or is followed by a header lands
\* before that header.
C1_SetThenGet ==
    last.op = "set_key" =>
        \A d \in Defaults : get_key(content, last.section, last.key, d) = last.value

\* C2: whenever the lines differ from the lines as of the last read_file or
\* successful write_file, is_changed() is true.
\* Violated: set_key assigns changed = (prev_value != value).
C2_DirtyWhenDiffers == (loaded /\ content # saved) => changed

\* C3: is_changed() is true only if the lines differ from the lines as of the
\* last read_file or successful write_file.
\* Violated: every mutator but set_key sets changed on a match without
\* comparing the old and the new text.
C3_DirtyOnlyWhenDiffers == (loaded /\ changed) => content # saved

\* C4: a call of a first-match mutator whose section holds no line that
\* satisfies its match predicate returns False, leaves the lines as they were
\* and leaves is_changed() as it was.
C4_NoMatchNoEffect ==
    (last.op \in FirstMatchOps /\ MatchSet(last, last.pre) = {}) =>
        /\ last.ret = "False"
        /\ content = last.pre
        /\ changed = last.pre_changed

\* C4 happens: a no-match call on a loaded, already dirty document.
C4_Witness ==
    /\ loaded
    /\ last.op = "uncomment_key"
    /\ MatchSet(last, last.pre) = {}
    /\ Len(last.pre) >= 2
    /\ last.pre_changed
    /\ last.ret = "False"

\* C5: whenever a mutator returns True, the lines after the call differ from
\* the lines before it.
\* Violated: a replace with the text the line already has returns True.
C5_TrueMeansAltered == last.ret = "True" => content # last.pre

\* C6: read_file immediately followed by write_file with the default newline
\* option leaves on disk the bytes that were there.
\* Violated: reading turns "\r\n" into "\n" and writing does not turn it back.
C6_RoundTrip ==
    (/\ last.op = "write_file"
     /\ last.ret = "None"
     /\ last.value = <<"None">>
     /\ last.after_read
     /\ last.pre_disk.exists) =>
        disk = last.pre_disk

\* C7: when comment_key(s,k) returns True, uncomment_key(s,k) right after it
\* returns True and gives back the lines as they were before comment_key.
\* Violated: uncomment_key writes the stripped text plus "\n", and acts on the
\* first ';'-entry with key k, which may be another line.
C7_CommentUncomment ==
    (last.op = "comment_key" /\ last.ret = "True") =>
        LET r == uncomment_key(content, changed, last.section, last.key)
        IN  r.ret = "True" /\ r.content = last.pre

\* the call c made again, on lines
Again(c, lines, was_changed) ==
    CASE c.op = "remove_key" -> remove_key(lines, was_changed, c.section, c.key)
      [] c.op = "comment_key" -> comment_key(lines, was_changed, c.section, c.key)
      [] c.op = "uncomment_key" -> uncomment_key(lines, was_changed, c.section, c.key)

\* what call c writes in place of the line it matched
Rewritten(c, line) ==
    CASE c.op = "replace_value_with_same_key" ->
              c.key \o (IF c.flag THEN <<" ", "=", " ">> ELSE <<"=">>) \o c.value \o <<LF>>
      [] c.op \in {"comment_key", "comment_by_substring_search"} -> <<";">> \o line
      [] c.op \in {"uncomment_key", "uncomment_by_substring_search"} ->
              strip(rest(strip(line))) \o <<LF>>
      [] c.op = "set_value_by_substring_search" ->
              split_eq(strip(line)).key \o <<"=">> \o c.value \o <<LF>>
      [] c.op = "replace_value_by_substring_search" ->
              replace(strip(line), c.key, c.value) \o <<LF>>

RemoveOps == {"remove_key", "remove_key_by_substring_search"}

\* lines is old with line m removed (a remove) or rewritten (the others)
ActsOnlyOn(c, old, m, lines) ==
    IF c.op \in RemoveOps
    THEN lines = Without(old, m)
    ELSE /\ Len(lines) = Len(old)
         /\ lines[m] = Rewritten(c, old[m])
         /\ \A i \in (1..Len(old)) \ {m} : lines[i] = old[i]

KeyLines(c, lines) ==
    {i \in 1..Len(lines) :
        /\ BelongsTo(lines, i, c.section)
        /\ IsEntry(lines[i])
        /\ EntryKey(lines[i]) = c.key}

\* C9: set_key on a document in which the key occurs in two or more entry
\* lines of the section rewrites only the first of them.
\* Violated: the loop of set_key does not stop at the first match.
C9_SetKeyFirstOnly ==
    (last.op = "set_key" /\ Cardinality(KeyLines(last, last.pre)) >= 2) =>
        /\ Len(content) = Len(last.pre)
        /\ \A i \in (1..Len(last.pre)) \ {Min(KeyLines(last, last.pre))} :
               content[i] = last.pre[i]

\* C10: the lines after set_key(s,k,v) are the lines after
\* replace_value_with_same_key(s,k,v) when that call returns True, and the
\* lines after add_key(s,k,v) otherwise.
\* Violated: set_key rewrites every matching line, and rewrites a commented
\* entry (to ';') where replace_value_with_same_key finds no match.
C10_SetKeyIsReplaceOrAdd ==
    last.op = "set_key" =>
        LET r == replace_value_with_same_key(last.pre, last.pre_changed,
                                             last.section, last.key, last.value, FALSE)
        IN  content = IF r.ret = "True"
                      THEN r.content
                      ELSE add_key(last.pre, last.pre_changed,
                                   last.section, last.key, last.value).content

\* C11: set_key(s,k,v) made twice in a row leaves the lines that one call
\* leaves.
\* Violated: the key added before the header of an empty section, and the
\* commented entry rewritten to ';', are not found by the second call, which
\* adds the key again.
C11_SetKeyIdempotent ==
    last.op = "set_key" =>
        set_key(content, changed, last.section, last.key, last.value).content = content

\* the header lines of lines that name section
HeadersOf(lines, section) ==
    {i \in 1..Len(lines) : IsHeaderLine(lines[i]) /\ HeaderName(lines[i]) = section}

EntryText(key, value) == key \o <<"=">> \o value \o <<LF>>

\* C12: add_key(s,k,v) on a document with no [s] header keeps every existing
\* line and appends the text "\n[s]\nk=v\n", one section block; afterwards
\* get_key(s,k,d) returns v and is_changed() is true.
C12_AddKeyNewSection ==
    (last.op = "add_key" /\ HeadersOf(last.pre, last.section) = {}) =>
        /\ Len(content) >= Len(last.pre)
        /\ SubSeq(content, 1, Len(last.pre)) = last.pre
        /\ join(content) = join(last.pre) \o <<LF, "[">> \o last.section \o <<"]", LF>>
                           \o EntryText(last.key, last.value)
        /\ Cardinality(HeadersOf(content, last.section)) = 1
        /\ \A d \in Defaults : get_key(content, last.section, last.key, d) = last.value
        /\ changed

\* C12 happens: a clean, loaded document without [A] that holds the key in
\* another section.
C12_Witness ==
    /\ last.op = "add_key"
    /\ loaded
    /\ ~last.pre_changed
    /\ HeadersOf(last.pre, last.section) = {}
    /\ \E i \in 1..Len(last.pre) : IsEntry(last.pre[i]) /\ EntryKey(last.pre[i]) = last.key
    /\ Len(content) = Len(last.pre) + 2

\* the first header line after line h, or the length plus one
NextHeader(lines, h) ==
    Min({i \in (h + 1)..Len(lines) : IsHeaderLine(lines[i])} \cup {Len(lines) + 1})

\* C13: add_key(s,k,v) on a document with an [s] header inserts k=v right
\* before the first header that follows the [s] header, or at the end of the
\* document: after the last line of the section.
\* Violated: the look-ahead test runs on the line being copied and the new
\* line is appended before it, so it lands before the last line of the
\* section, and before the [s] header when the section is empty.
C13_AddKeyAtSectionEnd ==
    (last.op = "add_key" /\ HeadersOf(last.pre, last.section) # {}) =>
        LET n == NextHeader(last.pre, Min(HeadersOf(last.pre, last.section)))
        IN  content = SubSeq(last.pre, 1, n - 1)
                      \o <<EntryText(last.key, last.value)>>
                      \o SubSeq(last.pre, n, Len(last.pre))

\* C14: get_key(s,k,d) returns the trimmed value of the first line, in file
\* order, that belongs to section s, contains '=' and has key k once one
\* leading ';' is taken off; it returns d when there is no such line.
C14_GetKeyFirstEntry ==
    last.op = "get_key" =>
        last.result = IF KeyLines(last, content) = {} THEN last.value
                      ELSE EntryValue(content[Min(KeyLines(last, content))])

\* C14 happens: the key is held by a line of another section only, and the
\* default comes back.
C14_Witness ==
    /\ last.op = "get_key"
    /\ last.value = <<"d">>
    /\ last.result = <<"d">>
    /\ HeadersOf(content, last.section) # {}
    /\ \E i \in 1..Len(content) :
          /\ IsEntry(content[i])
          /\ EntryKey(content[i]) = last.key
          /\ ~BelongsTo(content, i, last.section)

\* lines are the lines of text: cut after every "\n", nothing lost
IsLinesOf(lines, text) ==
    /\ join(lines) = text
    /\ \A i \in 1..Len(lines) :
          /\ lines[i] # <<>>
          /\ ~contains(SubSeq(lines[i], 1, Len(lines[i]) - 1), <<LF>>)
          /\ i < Len(lines) => lines[i][Len(lines[i])] = LF

\* C15: read_file of an existing path replaces the lines by the lines of the
\* file and makes is_changed() false, whatever they were; read_file of a
\* missing path raises FileNotFoundError and leaves both as they were.
C15_ReadFileAtomic ==
    last.op = "read_file" =>
        IF last.pre_disk.exists
        THEN /\ last.ret = "None"
             /\ IsLinesOf(content, universal_newlines(disk.data))
             /\ ~changed
        ELSE /\ last.ret = "FileNotFoundError"
             /\ content = last.pre
             /\ changed = last.pre_changed

\* C15 happens: a reload over a dirty document whose lines differ from the
\* file's.
C15_Witness ==
    /\ last.op = "read_file"
    /\ last.ret = "None"
    /\ last.pre_changed
    /\ last.pre # content
    /\ content # <<>>

C17_UncommentOnce ==
    (/\ last.op = "uncomment_key"
     /\ Cardinality(MatchSet(last, last.pre)) = 1
     /\ Cardinality(KeyLines(last, last.pre)) = 1) =>
        LET m == Min(MatchSet(last, last.pre))
            r == Again(last, content, changed)
        IN  /\ last.ret = "True"
            /\ ActsOnlyOn(last, last.pre, m, content)
            /\ ~startswith(content[m], <<";">>)
            /\ EntryKey(content[m]) = last.key
            /\ EntryValue(content[m]) = EntryValue(last.pre[m])
            /\ r.ret = "False"
            /\ r.content = content

\* C17 happens: the commented entry was padded, and comes back trimmed.
C17_Witness ==
    /\ last.op = "uncomment_key"
    /\ last.ret = "True"
    /\ Cardinality(MatchSet(last, last.pre)) = 1
    /\ Cardinality(KeyLines(last, last.pre)) = 1
    /\ \E i \in 1..Len(content) :
          last.pre[i] = <<";", " ", "k", "=", "2", " ", LF>> /\ content[i] = <<"k", "=", "2", LF>>

\* C18: replace_value_with_same_key on a section with an uncommented entry
\* for the key returns True; the first such line becomes "k=v\n" ("k = v\n"
\* with spacing); the number of lines and every other line are unchanged, and
\* no line that starts with ';' or '#' is the one rewritten.
C18_ReplaceFirstEntry ==
    (last.op = "replace_value_with_same_key" /\ MatchSet(last, last.pre) # {}) =>
        /\ last.ret = "True"
        /\ ActsOnlyOn(last, last.pre, Min(MatchSet(last, last.pre)), content)
        /\ \A i \in 1..Len(last.pre) : IsCommentLine(last.pre[i]) => content[i] = last.pre[i]

\* C18 happens: a '#' line with the key comes first and is passed over.
C18_Witness ==
    /\ last.op = "replace_value_with_same_key"
    /\ last.flag
    /\ Len(last.pre) = 3
    /\ startswith(last.pre[2], <<"#", "k", "=">>)
    /\ MatchSet(last, last.pre) = {3}
    /\ content[3] = <<"k", " ", "=", " ", "2", LF>>

\* C19: remove_key on a section with an uncommented entry for the key returns
\* True and takes out one line, the first such entry; the other lines keep
\* their text and order, and no commented entry is removed.
C19_RemoveFirstEntry ==
    (last.op = "remove_key" /\ MatchSet(last, last.pre) # {}) =>
        /\ last.ret = "True"
        /\ Len(content) = Len(last.pre) - 1
        /\ content = Without(last.pre, Min(MatchSet(last, last.pre)))

\* C19 happens: a ';'-commented entry with the key comes first and stays.
C19_Witness ==
    /\ last.op = "remove_key"
    /\ last.ret = "True"
    /\ Len(last.pre) = 3
    /\ last.pre[2] = CommentK1
    /\ content = SubSeq(last.pre, 1, 2)

\* the lines of the section that contain the substring of c
SubstringLines(c, lines) ==
    {i \in 1..Len(lines) :
        BelongsTo(lines, i, c.section) /\ contains(strip(lines[i]), c.key)}

\* C20: add_key_after_match(s,sub,new_line) on a document with an [s] header
\* inserts new_line right after the first line of section s that contains
\* sub, and nowhere else: a line of a later section is no insertion point.
\* Violated: the scan never leaves the section (its exit test asks for a
\* line that is the [s] header and is not), so a line of a later section
\* that contains sub is taken.
C20_AddAfterMatchInSection ==
    (last.op = "add_key_after_match" /\ HeadersOf(last.pre, last.section) # {}) =>
        IF SubstringLines(last, last.pre) = {}
        THEN content = last.pre
        ELSE LET m == Min(SubstringLines(last, last.pre))
             IN  content = SubSeq(last.pre, 1, m)
                           \o <<last.value \o <<LF>> >>
                           \o SubSeq(last.pre, m + 1, Len(last.pre))

\* C21: add_key returns True after inserting; add_key_after_match returns
\* False, with the lines and the flag as they were, when section s exists
\* and no line of it contains the substring.
\* Violated: both methods end without a return statement, so the caller gets
\* None; and a line of a later section that contains the substring is taken
\* as the match (the scan of C20), so the lines change.
C21_SuccessBoolean ==
    /\ last.op = "add_key" => last.ret = "True"
    /\ (/\ last.op = "add_key_after_match"
        /\ HeadersOf(last.pre, last.section) # {}
        /\ SubstringLines(last, last.pre) = {}) =>
           /\ last.ret = "False"
           /\ content = last.pre
           /\ changed = last.pre_changed

CommentLines(lines) == {i \in 1..Len(lines) : IsCommentLine(lines[i])}

\* C22: remove_key_by_substring_search deletes at most one line and changes
\* no other; with search_in_comment false a line that starts with ';' or '#'
\* is never the one deleted; with search_in_comment true the first line of
\* the section that has '=' and contains the substring is deleted, comment or
\* not.
C22_RemoveBySubstring ==
    last.op = "remove_key_by_substring_search" =>
        LET M == {i \in SubstringLines(last, last.pre) : IsEntry(last.pre[i])}
        IN  /\ \/ content = last.pre
               \/ \E m \in 1..Len(last.pre) : content = Without(last.pre, m)
            /\ ~last.flag =>
                   \A m \in CommentLines(last.pre) :
                       content = Without(last.pre, m) =>
                           \E n \in (1..Len(last.pre)) \ CommentLines(last.pre) :
                               content = Without(last.pre, n)
            /\ ~last.flag => Cardinality(CommentLines(content)) = Cardinality(CommentLines(last.pre))
            /\ (last.flag /\ M # {}) => content = Without(last.pre, Min(M))

\* C22 happens: the first line of the section with the substring is a
\* comment; without search_in_comment it stays and the entry after it goes.
C22_Witness ==
    /\ last.op = "remove_key_by_substring_search"
    /\ ~last.flag
    /\ last.ret = "True"
    /\ Len(last.pre) = 3
    /\ last.pre[2] = CommentK1
    /\ contains(last.pre[2], last.key)
    /\ content = SubSeq(last.pre, 1, 2)

MutatorOps == FirstMatchOps \cup {"add_key", "set_key", "add_key_after_match"}

\* the lines that do not belong to the section, in file order
OutsideLines(lines, section) ==
    LET keep[n \in 0..Len(lines)] ==
            IF n = 0 THEN <<>>
            ELSE IF BelongsTo(lines, n, section) THEN keep[n - 1]
                 ELSE Append(keep[n - 1], lines[n])
    IN  keep[Len(lines)]

\* C24: a mutator called with section s on a document that has an [s] header
\* leaves the lines that do not belong to s (lines before any header, other
\* sections and their headers) as they were, in the same order, and neither
\* adds a line to them nor takes one away.
\* Violated: add_key puts the new line before the [s] header when the header
\* is the last line of its section (C13), and add_key_after_match inserts
\* after a line of a later section (C20).
C24_SectionFrame ==
    (last.op \in MutatorOps /\ HeadersOf(last.pre, last.section) # {}) =>
        OutsideLines(content, last.section) = OutsideLines(last.pre, last.section)

\* C25: after add_key(s,k,v) the document has a line k=v whose nearest header
\* at or before it is [s], also when [s] is the last line or is followed at
\* once by another header; one line is inserted when [s] exists, however
\* many times.
\* Violated: with the header as the last line of its section the new line is
\* put before the header (C13), and it is inserted once per [s] header.
C25_AddKeyLandsInSection ==
    last.op = "add_key" =>
        /\ \E i \in 1..Len(content) :
              content[i] = EntryText(last.key, last.value) /\ BelongsTo(content, i, last.section)
        /\ HeadersOf(last.pre, last.section) # {} => Len(content) = Len(last.pre) + 1

\* C26: once is_changed() is true it stays true over every call that is not a
\* read_file or a write_file that succeeded.
\* Violated: set_key assigns `self.changed = prev_value != value`, so a
\* set_key of the value already stored resets the flag.
C26_DirtyMonotone ==
    (/\ last.pre_changed
     /\ last.op \notin {"__init__", "read_file"}
     /\ ~(last.op = "write_file" /\ last.ret = "None")) => changed

Terminated(lines) == \A i \in 1..Len(lines) : endswith(lines[i], <<LF>>)

PhysicalLines(lines) == Len(readlines(join(lines)))

\* C28: when every element of the lines ends with a line terminator before
\* set_key, add_key, add_key_after_match, replace_value_with_same_key,
\* comment_key or uncomment_key, every element does after it; and a line
\* inserted by add_key or add_key_after_match adds a physical line to the
\* text, also next to a last line without terminator.
\* Violated: set_key writes the bare text ';' for a commented match (C1),
\* and add_key_after_match appends after an unterminated last line, which
\* runs the two together.
C28_NoMergedLines ==
    (last.op \in {"set_key", "add_key", "add_key_after_match",
                  "replace_value_with_same_key", "comment_key", "uncomment_key"}) =>
        /\ Terminated(last.pre) => Terminated(content)
        /\ (last.op \in {"add_key", "add_key_after_match"} /\ Len(content) > Len(last.pre)) =>
               PhysicalLines(content) > PhysicalLines(last.pre)

\* what the file holds, as text mode reads it; nothing when there is no file
OnDisk == IF disk.exists THEN universal_newlines(disk.data) ELSE <<>>

\* C27: after GameConfig.load, any set_value calls and a save that ends
\* without I/O error, the file on disk holds the parser's lines.
\* Violated: set_key assigns `self.changed = prev_value != value`, so a
\* set_value of the value just stored clears the flag set by the earlier
\* set_value (C26), and save, which writes only when is_changed(), skips the
\* write.
C27_NoLostUpdate ==
    (loaded /\ last.op = "save" /\ last.ret = "None") => OnDisk = join(content)

\* the port configured before the call, when there is one
OldPort(c) ==
    get_key(c.pre, c.section, c.key, <<>>)

\* C29: set_option for GamePort or SteamQueryPort calls neither
\* firewall_remove nor firewall_allow when the value denotes the port
\* already configured, and firewall_remove(old) then firewall_allow(new)
\* when it denotes another.
\* Violated: previous_value comes from get_value, converted to the option's
\* type, and is compared with the string given: an int never equals a str,
\* and '01' is not '1', so the rule of the same port is removed and allowed
\* again.
C29_FirewallOnlyOnChange ==
    (last.op = "set_option" /\ last.ret = "None" /\ OldPort(last) # <<>>) =>
        IF int(OldPort(last)) = int(last.value)
        THEN last.result = <<>>
        ELSE last.result = <<[fn |-> "firewall_remove", port |-> int(OldPort(last))],
                             [fn |-> "firewall_allow", port |-> int(last.value)]>>

\* C30: 'systemctl start' is issued only by a process with root privileges
\* and for a service that is not running; without root, start does not
\* enter the startup wait loop.
\* Violated: after printing the error for the missing privilege start does
\* not return, so the command is issued and the loop entered all the same.
C30_StartNeedsRoot ==
    /\ \A i \in 1..Len(service.systemctl) :
          service.systemctl[i].cmd = "start" =>
              service.systemctl[i].sudo /\ ~service.systemctl[i].running
    /\ ~IS_SUDO => service.pc # "startup_wait"

====
